---------------------------- MODULE Spec2Model ----------------------------
(***************************************************************************)
(* RenderQ coordinator: the store (jobs, tasks, workers), the request      *)
(* handlers of src/src/server/main.py and the scheduler loop of            *)
(* src/src/core/scheduler.py, as one state machine.                        *)
(*                                                                         *)
(* Execution model.  Every handler is an `async def` run on one asyncio    *)
(* event loop and the store calls are synchronous, so a coroutine runs     *)
(* alone from one await that suspends to the next.  `loop` names the       *)
(* coroutine that holds the event loop.  Every store call commits on its   *)
(* own (Database.transaction wraps one statement).  request_task is        *)
(* modelled statement by statement; the other handlers have no store call  *)
(* after their first await and are one step each, and so is one turn of    *)
(* the scheduler loop while no emit suspends.                              *)
(*                                                                         *)
(* Specifications.  Spec: every endpoint and the scheduler, one single-    *)
(* task job, one worker host.  SpecCounts: one job of several tasks and    *)
(* every worker host, with the operations that write counts, task status   *)
(* or remove rows.  SpecDispatch: submissions and registrations that       *)
(* differ in priority, pool, plugin, capabilities and dependencies.        *)
(* SpecRace: concurrent request_task calls for one pending task.           *)
(* SpecTimeout: workers that heartbeat or fall silent while the clock      *)
(* passes the timeout.  SpecSubmit: submissions that are stored, refused   *)
(* or fail half-way.                                                       *)
(* SpecFollowUp: the scheduler loop step by step, suspended at each emit,  *)
(* with single-task jobs in two pools.  SpecSuspend: a job suspended and   *)
(* resumed while agents work on it.  SpecLive: agents that keep running    *)
(* their loop and heartbeat in time.  SpecTick: one job whose tasks are    *)
(* completed, cancelled or suspended between scheduler turns.              *)
(* SpecEvents: streaming clients that connect and go away while an event  *)
(* is broadcast.  SpecStale: SpecFollowUp with cancel_job and suspend_job. *)
(* SpecSweep: the timeout sweep step by step among heartbeats.             *)
(* SpecChunks: custom-mode After Effects submissions over frame ranges.    *)
(*                                                                         *)
(* Optional values (None in the source) are sets with at most one element. *)
(***************************************************************************)
EXTENDS Integers, Sequences, FiniteSets, TLC

\* ---------------------------------------------------------------- bounds
MaxJobs == 2
MaxTasks == 2
MaxWorkers == 2
MaxClients == 3
MaxFrame == 11
MaxChunk == 4

\* ------------------------------------------------------ program constants
worker_timeout == 60
max_task_retries == 3

\* ------------------------------------------------------------ value sets
None == {}
Some(x) == {x}
The(s) == CHOOSE x \in s : TRUE

JobIds == 1..MaxJobs
WorkerIds == 1..MaxWorkers
\* A task id: the job it was created for and its index in that job.
TaskIds == JobIds \X (0..(MaxTasks - 1))
\* A job id no submission ever stored (dependent_on may name one).
NoSuchJob == MaxJobs + 1

JobStatus == {"pending", "queued", "active", "completed", "failed",
              "suspended", "cancelled"}
TaskStatus == {"pending", "assigned", "running", "completed", "failed"}
WorkerStatus == {"idle", "busy", "offline", "disabled"}

\* Ages saturate just above the timeout.
MaxAge == worker_timeout + 1

Min(a, b) == IF a < b THEN a ELSE b

VARIABLES
    jobs,       \* table jobs: id -> row
    tasks,      \* table tasks: id -> row
    workers,    \* table workers: id -> row
    nextJob,    \* the next fresh job id (uuid4 never repeats)
    loop,       \* the coroutine running on the event loop, or Free
    req,        \* request_task: per worker, the handler's position and locals
    sched,      \* the scheduler coroutine: position and locals
    agent,      \* WorkerAgent.current_task of each worker's agent process
    ws_manager  \* ConnectionManager and the event being delivered

vars == <<jobs, tasks, workers, nextJob, loop, req, sched, agent, ws_manager>>

\* ------------------------------------------------------------- the store

\* Database.get_tasks_by_job
get_tasks_by_job(ts, j) == {t \in DOMAIN ts : ts[t].job_id = j}

CountStatus(ts, j, s) == Cardinality({t \in get_tasks_by_job(ts, j) : ts[t].status = s})

\* Database.add_job / add_task: INSERT
Insert(table, id, row) == [x \in DOMAIN table \cup {id} |-> IF x = id THEN row ELSE table[x]]

\* An UPDATE ... WHERE id = ?: no row, no change.
Update(table, id, row) == IF id \in DOMAIN table THEN [table EXCEPT ![id] = row] ELSE table

\* A delete that left the tasks of the job in place.
NoCascade(ts, j) == ts

\* Database.delete_job: the job's tasks, then the job.
delete_job_tasks(ts, j) == [t \in DOMAIN ts \ get_tasks_by_job(ts, j) |-> ts[t]]
delete_job_row(js, j) == [x \in DOMAIN js \ {j} |-> js[x]]

\* Database.delete_worker
delete_worker_row(ws, w) == [x \in DOMAIN ws \ {w} |-> ws[x]]

\* Database.update_task_status: status is set, the optional columns are
\* COALESCE(new, old).
Coalesce(new, old) == IF new # None THEN new ELSE old
update_task_status(ts, t, status, exit_code, error_message) ==
    IF t \in DOMAIN ts
    THEN [ts EXCEPT ![t].status = status,
                    ![t].exit_code = Coalesce(exit_code, @),
                    ![t].error_message = Coalesce(error_message, @)]
    ELSE ts

\* Database.update_task_progress
update_task_progress(ts, t, p) == IF t \in DOMAIN ts THEN [ts EXCEPT ![t].progress = p] ELSE ts

\* Database.update_job_status: a terminal status also writes error_message
\* (and finished_at).
update_job_status(js, j, status, error_message) ==
    IF j \notin DOMAIN js THEN js
    ELSE IF status \in {"completed", "failed", "cancelled"}
    THEN [js EXCEPT ![j].status = status, ![j].finished = TRUE,
                    ![j].error_message = error_message]
    ELSE [js EXCEPT ![j].status = status]

\* Database.update_job: every column but id and submitted_at.
update_job(js, j, row) ==
    IF j \in DOMAIN js THEN [js EXCEPT ![j] = [row EXCEPT !.submitted_at = js[j].submitted_at]]
    ELSE js

\* Database.update_worker = upsert_worker: INSERT ... ON CONFLICT DO UPDATE.
upsert_worker(ws, w, row) == Insert(ws, w, row)

\* Database.update_worker_heartbeat: status, current_task, cpu_usage and
\* memory_used are taken from the heartbeat, last_heartbeat = now.
update_worker_heartbeat(ws, w, heartbeat) ==
    IF w \in DOMAIN ws
    THEN [ws EXCEPT ![w].status = heartbeat.status,
                    ![w].current_task = heartbeat.current_task,
                    ![w].cpu_usage = heartbeat.cpu_usage,
                    ![w].memory_used = heartbeat.memory_used,
                    ![w].hb_age = 0]
    ELSE ws

\* Database.mark_worker_offline
mark_worker_offline(ws, w) ==
    IF w \in DOMAIN ws THEN [ws EXCEPT ![w].status = "offline", ![w].current_task = None] ELSE ws

\* The ORDER BY of get_next_task_for_worker: j.priority DESC,
\* j.submitted_at ASC, t.idx ASC.
Before(js, ts, a, b) ==
    LET ja == js[ts[a].job_id]
        jb == js[ts[b].job_id]
    IN  \/ ja.priority > jb.priority
        \/ ja.priority = jb.priority /\ ja.submitted_at < jb.submitted_at
        \/ ja.priority = jb.priority /\ ja.submitted_at = jb.submitted_at
           /\ ts[a].index < ts[b].index

\* A query without the pool condition would accept every pool.
AnyPool(js, ts, t, pools) == TRUE

\* The WHERE clause of get_next_task_for_worker (the JOIN drops a task
\* whose job row is gone).
PoolFilter(js, ts, t, pools) == js[ts[t].job_id].pool \in pools

\* A query that did not look at the status of the job.
AnyJobStatus(js, j) == TRUE

\* A query that also took the tasks of suspended jobs.
AlsoSuspended(js, j) == js[j].status \in {"queued", "active", "suspended"}

\* AND j.status IN ('queued', 'active')
JobDispatchable(js, j) == js[j].status \in {"queued", "active"}

Candidates(js, ts, pools) ==
    {t \in DOMAIN ts : /\ ts[t].status = "pending"
                       /\ ts[t].job_id \in DOMAIN js
                       /\ JobDispatchable(js, ts[t].job_id)
                       /\ PoolFilter(js, ts, t, pools)}

\* Database.get_next_task_for_worker: the first row or None.  Rows that tie
\* in all three sort keys belong to jobs with equal submitted_at, which
\* the clock below never produces.
get_next_task_for_worker(js, ts, pools) ==
    LET c == Candidates(js, ts, pools)
    IN  {t \in c : \A u \in c \ {t} : Before(js, ts, t, u)}

\* ------------------------------------------------------------------ rows

\* models.Job as submit_job builds it; formats is the number of encoded
\* output formats plugin_data asks for (one follow-up job each).
NewJob(priority, pool, plugin, formats, dependent_on, at) ==
    [status |-> "pending", priority |-> priority, pool |-> pool, plugin |-> plugin,
     formats |-> formats, dependent_on |-> dependent_on, submitted_at |-> at,
     progress |-> 0, task_total |-> 0, task_completed |-> 0, task_failed |-> 0,
     error_message |-> None, finished |-> FALSE]

\* models.Task as a plugin's create_tasks builds it.
NewTask(j, i) ==
    [job_id |-> j, index |-> i, status |-> "pending", progress |-> 0,
     assigned_worker |-> None, exit_code |-> None, error_message |-> None]

\* models.Worker as register_worker builds it; hb_age is
\* now - last_heartbeat in seconds, saturated at MaxAge.
NewWorker(pools, capabilities) ==
    [status |-> "idle", current_task |-> None, pools |-> pools,
     capabilities |-> capabilities, cpu_usage |-> 0, memory_used |-> 0, hb_age |-> 0]

\* The coroutines that can hold the event loop.
Free == <<"free", 0>>
ReqCo(w) == <<"request_task", w>>
SchedCo == <<"scheduler", 0>>

\* request_task's locals: the worker row and the task row it read.
ReqIdle == [pc |-> "idle", worker |-> None, task |-> None, row |-> None, resp |-> None]
\* The scheduler's locals: the rows it listed, those still to visit, and
\* the job object whose write-back is pending.
SchedSleep == [pc |-> "sleep", todo |-> <<>>, snap |-> <<>>, job |-> None]

\* ConnectionManager() with no connection, no event under way:
\* active_connections is the list of the manager, closed the connections
\* whose peer is gone, invoked the handlers the bus has called for the
\* event under way, bc the locals of ConnectionManager.broadcast (the
\* position of its for loop, its `disconnected` list, the list it started
\* from) and received the clients the event was sent to.
NoConnections ==
    [active_connections |-> <<>>, closed |-> {}, invoked |-> {}, bc |-> None,
     received |-> {}]

\* A list of the ids S in the order Less.
Sorted(S, Less(_, _)) ==
    CHOOSE s \in [1..Cardinality(S) -> S] :
        /\ {s[i] : i \in 1..Cardinality(S)} = S
        /\ \A i, k \in 1..Cardinality(S) : i < k => Less(s[i], s[k])

\* The percentage a / b * 100 of the inline aggregation and sum / total of
\* the scheduler's, floored to a whole percent.
Percent(sum, total) == IF total > 0 THEN sum \div total ELSE 0

Init ==
    /\ jobs = <<>>
    /\ tasks = <<>>
    /\ workers = <<>>
    /\ nextJob = 1
    /\ loop = Free
    /\ req = [w \in WorkerIds |-> ReqIdle]
    /\ sched = SchedSleep
    /\ agent = [w \in WorkerIds |-> None]
    /\ ws_manager = NoConnections

\* ----------------------------------------------------------- submission

\* A submit_job that stored one less than the number of tasks it created.
OneLess(n) == n - 1

\* The task_total submit_job stores: len(tasks).
SubmitTaskTotal(n) == n

\* submit_job with a registered plugin whose validate passes and whose
\* create_tasks returns n tasks.
submit_job(priority, pool, plugin, formats, dependent_on, n) ==
    /\ loop = Free
    /\ nextJob <= MaxJobs
    /\ LET j == nextJob
           job == NewJob(priority, pool, plugin, formats, dependent_on, j)
       IN  /\ jobs' = Insert(jobs, j, [job EXCEPT !.task_total = SubmitTaskTotal(n),
                                                  !.status = "queued"])
           /\ tasks' = [t \in DOMAIN tasks \cup {<<j, i>> : i \in 0..(n - 1)} |->
                           IF t \in DOMAIN tasks THEN tasks[t] ELSE NewTask(t[1], t[2])]
           /\ nextJob' = j + 1
    /\ UNCHANGED <<workers, loop, req, sched, agent, ws_manager>>

\* --------------------------------------------------------- job lifecycle

\* Scheduler.suspend_job
suspend_job(j) ==
    /\ loop = Free
    /\ j \in DOMAIN jobs
    /\ jobs[j].status \in {"pending", "queued", "active"}
    /\ jobs' = update_job_status(jobs, j, "suspended", None)
    /\ UNCHANGED <<tasks, workers, nextJob, loop, req, sched, agent, ws_manager>>

\* A resume that always went to active.
AlwaysActive(has_pending) == "active"

\* resume_job: queued if a task is pending, else active.
ResumeStatus(has_pending) == IF has_pending THEN "queued" ELSE "active"

\* Scheduler.resume_job
resume_job(j) ==
    /\ loop = Free
    /\ j \in DOMAIN jobs
    /\ jobs[j].status = "suspended"
    /\ LET has_pending == \E t \in get_tasks_by_job(tasks, j) : tasks[t].status = "pending"
       IN  jobs' = update_job_status(jobs, j, ResumeStatus(has_pending), None)
    /\ UNCHANGED <<tasks, workers, nextJob, loop, req, sched, agent, ws_manager>>

\* Scheduler.cancel_job: no check of the current status.
cancel_job(j) ==
    /\ loop = Free
    /\ j \in DOMAIN jobs
    /\ jobs' = update_job_status(jobs, j, "cancelled", None)
    /\ UNCHANGED <<tasks, workers, nextJob, loop, req, sched, agent, ws_manager>>

\* Scheduler.retry_job
retry_job(j) ==
    /\ loop = Free
    /\ j \in DOMAIN jobs
    /\ jobs[j].status = "failed"
    /\ tasks' = [t \in DOMAIN tasks |->
                    IF tasks[t].job_id = j /\ tasks[t].status = "failed"
                    THEN [tasks[t] EXCEPT !.status = "pending", !.assigned_worker = None,
                                          !.error_message = None, !.exit_code = None]
                    ELSE tasks[t]]
    /\ jobs' = update_job(jobs, j, [jobs[j] EXCEPT !.status = "queued", !.task_failed = 0,
                                                   !.error_message = None, !.finished = FALSE])
    /\ UNCHANGED <<workers, nextJob, loop, req, sched, agent, ws_manager>>

\* delete_job (server): terminal jobs only.
delete_job(j) ==
    /\ loop = Free
    /\ j \in DOMAIN jobs
    /\ jobs[j].status \in {"completed", "cancelled", "failed"}
    /\ tasks' = delete_job_tasks(tasks, j)
    /\ jobs' = delete_job_row(jobs, j)
    /\ UNCHANGED <<workers, nextJob, loop, req, sched, agent, ws_manager>>

\* update_job_priority with 0 <= priority <= 100
update_job_priority(j, priority) ==
    /\ loop = Free
    /\ j \in DOMAIN jobs
    /\ jobs' = update_job(jobs, j, [jobs[j] EXCEPT !.priority = priority])
    /\ UNCHANGED <<tasks, workers, nextJob, loop, req, sched, agent, ws_manager>>

\* ---------------------------------------------------------- task reports

\* A report that left the worker of the task as it was.
NoRelease(ws, task) == ws

\* "释放Worker" in task_completed, task_failed, cancel_task, suspend_task:
\* the worker the task row names, if it is stored, becomes idle.
ReleaseWorker(ws, task) ==
    IF task.assigned_worker # None /\ The(task.assigned_worker) \in DOMAIN ws
    THEN LET w == The(task.assigned_worker)
         IN  upsert_worker(ws, w, [ws[w] EXCEPT !.status = "idle", !.current_task = None])
    ELSE ws

\* "更新Job状态" in task_completed and task_failed: the counts and the
\* progress recomputed from the job's tasks.
InlineCounts(job, ts, j) ==
    LET completed_count == CountStatus(ts, j, "completed")
        failed_count == CountStatus(ts, j, "failed")
    IN  [job EXCEPT !.task_completed = completed_count,
                    !.task_failed = failed_count,
                    !.progress = Percent(completed_count * 100, job.task_total)]

\* An inline aggregation that never found the job finished.
NeverTerminal(job) == FALSE

\* completed_count + failed_count >= job.task_total
AllTerminal(job) == job.task_completed + job.task_failed >= job.task_total

\* task_started: the status is set whatever it was.
task_started(t) ==
    /\ loop = Free
    /\ t \in DOMAIN tasks
    /\ tasks' = update_task_status(tasks, t, "running", None, None)
    /\ UNCHANGED <<jobs, workers, nextJob, loop, req, sched, agent, ws_manager>>

\* task_progress
task_progress(t, p) ==
    /\ loop = Free
    /\ t \in DOMAIN tasks
    /\ tasks' = update_task_progress(tasks, t, p)
    /\ UNCHANGED <<jobs, workers, nextJob, loop, req, sched, agent, ws_manager>>

\* task_completed
task_completed(t, exit_code) ==
    /\ loop = Free
    /\ t \in DOMAIN tasks
    /\ LET task == tasks[t]
           ts == update_task_status(tasks, t, "completed", Some(exit_code), None)
           j == task.job_id
       IN  /\ tasks' = ts
           /\ workers' = ReleaseWorker(workers, task)
           /\ IF j \in DOMAIN jobs
              THEN LET job == InlineCounts(jobs[j], ts, j)
                   IN  jobs' = update_job(jobs, j,
                           IF AllTerminal(job)
                           THEN [job EXCEPT !.status = IF job.task_failed > 0 THEN "failed"
                                                       ELSE "completed",
                                            !.finished = TRUE]
                           ELSE job)
              ELSE jobs' = jobs
    /\ UNCHANGED <<nextJob, loop, req, sched, agent, ws_manager>>

\* task_failed
task_failed(t, exit_code, error_message) ==
    /\ loop = Free
    /\ t \in DOMAIN tasks
    /\ LET task == tasks[t]
           ts == update_task_status(tasks, t, "failed", Some(exit_code), error_message)
           j == task.job_id
       IN  /\ tasks' = ts
           /\ workers' = ReleaseWorker(workers, task)
           /\ IF j \in DOMAIN jobs
              THEN LET job == InlineCounts(jobs[j], ts, j)
                   IN  jobs' = update_job(jobs, j,
                           IF AllTerminal(job)
                           THEN [job EXCEPT !.status = "failed", !.finished = TRUE,
                                            !.error_message = error_message]
                           ELSE job)
              ELSE jobs' = jobs
    /\ UNCHANGED <<nextJob, loop, req, sched, agent, ws_manager>>

\* retry_task: update_task_status(PENDING), then update_task(task) with the
\* row read before it, whose status is still failed.
retry_task(t) ==
    /\ loop = Free
    /\ t \in DOMAIN tasks
    /\ tasks[t].status = "failed"
    /\ tasks' = [tasks EXCEPT ![t] = [tasks[t] EXCEPT !.assigned_worker = None, !.progress = 0,
                                                      !.exit_code = None, !.error_message = None]]
    /\ UNCHANGED <<jobs, workers, nextJob, loop, req, sched, agent, ws_manager>>

\* cancel_task
cancel_task(t) ==
    /\ loop = Free
    /\ t \in DOMAIN tasks
    /\ tasks[t].status \in {"pending", "assigned", "running"}
    /\ workers' = ReleaseWorker(workers, tasks[t])
    /\ tasks' = update_task_status(tasks, t, "failed", None, Some("Cancelled by user"))
    /\ UNCHANGED <<jobs, nextJob, loop, req, sched, agent, ws_manager>>

\* suspend_task
suspend_task(t) ==
    /\ loop = Free
    /\ t \in DOMAIN tasks
    /\ tasks[t].status = "running"
    /\ workers' = ReleaseWorker(workers, tasks[t])
    /\ tasks' = update_task_status(tasks, t, "failed", None, Some("Suspended by user"))
    /\ UNCHANGED <<jobs, nextJob, loop, req, sched, agent, ws_manager>>

\* ---------------------------------------------------------------- workers

\* register_worker: upsert with status idle, current_task None,
\* last_heartbeat = now.  The agent registers when it starts, holding no task.
register_worker(w, pools, capabilities) ==
    /\ loop = Free
    /\ workers' = upsert_worker(workers, w, NewWorker(pools, capabilities))
    /\ agent' = [agent EXCEPT ![w] = None]
    /\ UNCHANGED <<jobs, tasks, nextJob, loop, req, sched, ws_manager>>

\* psutil.cpu_percent() and psutil.virtual_memory().used as the agent
\* reads them: the memory in use on a running host is never 0.
Telemetry == {[cpu_usage |-> 0, memory_used |-> 1]}

\* The body WorkerAgent._heartbeat_loop sends: "busy" and its current_task
\* when it holds one, else "idle" and None, with the host's telemetry.
HeartbeatOf(current_task, tel) ==
    [status |-> IF current_task # None THEN "busy" ELSE "idle",
     current_task |-> current_task,
     cpu_usage |-> tel.cpu_usage, memory_used |-> tel.memory_used]

\* worker_heartbeat
worker_heartbeat(w) ==
    /\ loop = Free
    /\ w \in DOMAIN workers
    /\ \E tel \in Telemetry :
           workers' = update_worker_heartbeat(workers, w, HeartbeatOf(agent[w], tel))
    /\ UNCHANGED <<jobs, tasks, nextJob, loop, req, sched, agent, ws_manager>>

\* disable_worker
disable_worker(w) ==
    /\ loop = Free
    /\ w \in DOMAIN workers
    /\ workers' = upsert_worker(workers, w, [workers[w] EXCEPT !.status = "disabled"])
    /\ UNCHANGED <<jobs, tasks, nextJob, loop, req, sched, agent, ws_manager>>

\* enable_worker
enable_worker(w) ==
    /\ loop = Free
    /\ w \in DOMAIN workers
    /\ workers' = upsert_worker(workers, w, [workers[w] EXCEPT !.status = "idle"])
    /\ UNCHANGED <<jobs, tasks, nextJob, loop, req, sched, agent, ws_manager>>

\* delete_worker (server)
delete_worker(w) ==
    /\ loop = Free
    /\ w \in DOMAIN workers
    /\ workers[w].status \in {"offline", "disabled"}
    /\ workers' = delete_worker_row(workers, w)
    /\ UNCHANGED <<jobs, tasks, nextJob, loop, req, sched, agent, ws_manager>>

\* WorkerAgent._execute_task ends (self.current_task = None), or the
\* agent process stops.
AgentDrop(w) ==
    /\ agent[w] # None
    /\ agent' = [agent EXCEPT ![w] = None]
    /\ UNCHANGED <<jobs, tasks, workers, nextJob, loop, req, sched, ws_manager>>

\* Time passes by d seconds while no coroutine runs.
Tick(d) ==
    /\ loop = Free
    /\ \E w \in DOMAIN workers : workers[w].hb_age < MaxAge
    /\ workers' = [w \in DOMAIN workers |->
                      [workers[w] EXCEPT !.hb_age = Min(@ + d, MaxAge)]]
    /\ UNCHANGED <<jobs, tasks, nextJob, loop, req, sched, agent, ws_manager>>

\* ----------------------------------------------------------- request_task

\* A request_task that released the event loop after picking its task, or
\* after its update_task, would let the loop go free there.
YieldAfterSelect(w) == Free
YieldAfterUpdateTask(w) == Free

\* Who holds the event loop after request_task has picked its task and
\* after its update_task: the handler itself, there is no await in it.
AfterSelect(w) == ReqCo(w)
AfterUpdateTask(w) == ReqCo(w)

\* A coroutine runs when it holds the loop; one suspended at an await
\* resumes when the loop is free.
Runs(w) == loop = ReqCo(w) \/ (loop = Free /\ req[w].pc \notin {"idle", "queued"})

\* request_task up to its first write.  The agent asks only while it holds
\* no task (WorkerAgent.start).
ReqBegin(w) ==
    /\ loop = Free
    /\ agent[w] = None
    /\ w \in DOMAIN workers
    /\ LET worker == workers[w]
           sel == get_next_task_for_worker(jobs, tasks, worker.pools)
       IN  IF worker.status # "idle" \/ sel = None
           THEN /\ req' = [req EXCEPT ![w] = [ReqIdle EXCEPT !.pc = "return"]]
                /\ loop' = ReqCo(w)
           ELSE /\ req' = [req EXCEPT ![w] = [pc |-> "update_task", worker |-> Some(worker),
                                             task |-> sel, row |-> Some(tasks[The(sel)]),
                                             resp |-> None]]
                /\ loop' = AfterSelect(w)
    /\ UNCHANGED <<jobs, tasks, workers, nextJob, sched, agent, ws_manager>>

\* request_task called by a worker whose previous call has returned.
request_task(w) == req[w].pc = "idle" /\ ReqBegin(w)

\* A call already sent, waiting for the event loop: the handler starts.
ReqQueued == [ReqIdle EXCEPT !.pc = "queued"]
ReqStart(w) == req[w].pc = "queued" /\ ReqBegin(w)

\* task.status = ASSIGNED; task.assigned_worker = worker_id; update_task
ReqUpdateTask(w) ==
    /\ Runs(w)
    /\ req[w].pc = "update_task"
    /\ tasks' = Update(tasks, The(req[w].task),
                       [The(req[w].row) EXCEPT !.status = "assigned",
                                               !.assigned_worker = Some(w)])
    /\ req' = [req EXCEPT ![w].pc = "update_worker"]
    /\ loop' = AfterUpdateTask(w)
    /\ UNCHANGED <<jobs, workers, nextJob, sched, agent, ws_manager>>

\* worker.status = BUSY; worker.current_task = task.id; update_worker
ReqUpdateWorker(w) ==
    /\ Runs(w)
    /\ req[w].pc = "update_worker"
    /\ workers' = upsert_worker(workers, w,
                      [The(req[w].worker) EXCEPT !.status = "busy",
                                                 !.current_task = req[w].task])
    /\ req' = [req EXCEPT ![w].pc = "update_job"]
    /\ loop' = ReqCo(w)
    /\ UNCHANGED <<jobs, tasks, nextJob, sched, agent, ws_manager>>

\* job = get_job(task.job_id); a queued job becomes active.
ReqUpdateJob(w) ==
    /\ Runs(w)
    /\ req[w].pc = "update_job"
    /\ LET j == The(req[w].row).job_id
       IN  jobs' = IF j \in DOMAIN jobs /\ jobs[j].status = "queued"
                   THEN update_job(jobs, j, [jobs[j] EXCEPT !.status = "active"])
                   ELSE jobs
    /\ req' = [req EXCEPT ![w].pc = "return", ![w].resp = req[w].task]
    /\ loop' = ReqCo(w)
    /\ UNCHANGED <<tasks, workers, nextJob, sched, agent, ws_manager>>

\* The response reaches the agent: _execute_task sets self.current_task.
ReqReturn(w) ==
    /\ Runs(w)
    /\ req[w].pc = "return"
    /\ agent' = [agent EXCEPT ![w] = req[w].resp]
    /\ req' = [req EXCEPT ![w] = ReqIdle]
    /\ loop' = Free
    /\ UNCHANGED <<jobs, tasks, workers, nextJob, sched, ws_manager>>

\* -------------------------------------------------------------- scheduler

\* get_workers: ORDER BY name (workers are named after their ids).
WorkerList(ws) == Sorted(DOMAIN ws, LAMBDA a, b : a < b)

\* get_jobs_by_status(ACTIVE): ORDER BY priority DESC, submitted_at ASC.
ActiveJobs(js) ==
    Sorted({j \in DOMAIN js : js[j].status = "active"},
           LAMBDA a, b : \/ js[a].priority > js[b].priority
                         \/ js[a].priority = js[b].priority
                            /\ js[a].submitted_at < js[b].submitted_at)

\* A sweep that compared with >= would time a worker out at the boundary.
AtBoundary(worker) == worker.hb_age >= worker_timeout

\* now - worker.last_heartbeat > timeout
TimedOut(worker) == worker.hb_age > worker_timeout

\* A sweep that left the task of a timed-out worker as it is.
NoRequeue(ts, worker) == ts

\* The task a timed-out worker held goes back to pending if it is running.
Requeue(ts, worker) ==
    IF /\ worker.current_task # None
       /\ The(worker.current_task) \in DOMAIN ts
       /\ ts[The(worker.current_task)].status = "running"
    THEN [ts EXCEPT ![The(worker.current_task)].status = "pending",
                    ![The(worker.current_task)].assigned_worker = None]
    ELSE ts

\* _check_worker_timeouts: the loop over the workers listed in snap, run
\* without suspension; the store's workers and tasks after it.
RECURSIVE check_worker_timeouts(_, _, _, _)
check_worker_timeouts(todo, snap, ws, ts) ==
    IF todo = <<>> THEN <<ws, ts>>
    ELSE LET w == Head(todo)
             worker == snap[w]
         IN  IF worker.status # "offline" /\ TimedOut(worker)
             THEN check_worker_timeouts(Tail(todo), snap, mark_worker_offline(ws, w),
                                        Requeue(ts, worker))
             ELSE check_worker_timeouts(Tail(todo), snap, ws, ts)

\* progress: 100 for a completed task, task.progress for a running one,
\* over len(tasks).
SchedProgress(ts, j) ==
    LET RECURSIVE Sum(_)
        Sum(S) == IF S = {} THEN 0
                  ELSE LET t == CHOOSE x \in S : TRUE
                       IN  (CASE ts[t].status = "completed" -> 100
                              [] ts[t].status = "running" -> ts[t].progress
                              [] OTHER -> 0) + Sum(S \ {t})
    IN  Percent(Sum(get_tasks_by_job(ts, j)), Cardinality(get_tasks_by_job(ts, j)))

\* The text of f"{failed} tasks failed".
TasksFailed(failed) == Some(<<failed, "tasks failed">>)

\* The job object after "更新Job" and "检查是否完成".
SchedAggregate(job, ts, j) ==
    LET completed == CountStatus(ts, j, "completed")
        failed == CountStatus(ts, j, "failed")
        total == Cardinality(get_tasks_by_job(ts, j))
        counted == [job EXCEPT !.progress = SchedProgress(ts, j),
                               !.task_completed = completed, !.task_failed = failed]
    IN  IF completed + failed >= total
        THEN IF failed = 0
             THEN [counted EXCEPT !.status = "completed", !.finished = TRUE]
             ELSE IF failed >= total \/ failed > max_task_retries
             THEN [counted EXCEPT !.status = "failed", !.finished = TRUE,
                                  !.error_message = TasksFailed(failed)]
             ELSE counted
        ELSE counted

\* Follow-up jobs that did not name the job they come from.
OrphanFollowUps(job, j, first) ==
    IF job.plugin = "aftereffects"
    THEN [n \in first..(first + job.formats - 1) |->
             NewJob(job.priority, job.pool, "ffmpeg", 0, {}, n)]
    ELSE <<>>

\* _create_follow_up_jobs: one new job per descriptor of get_encoding_jobs;
\* the After Effects plugin is the one that has get_encoding_jobs.
FollowUps(job, j, first) ==
    IF job.plugin = "aftereffects"
    THEN [n \in first..(first + job.formats - 1) |->
             NewJob(job.priority, job.pool, "ffmpeg", 0, {j}, n)]
    ELSE <<>>

\* _update_job_progress: the loop over the active jobs listed in snap, run
\* without suspension; the store's jobs and the next fresh id after it.
\* update_job(job) writes the listed object back after the follow-up jobs
\* are added.
RECURSIVE update_job_progress(_, _, _, _, _)
update_job_progress(todo, snap, js, ts, next) ==
    IF todo = <<>> THEN <<js, next>>
    ELSE LET j == Head(todo)
         IN  IF get_tasks_by_job(ts, j) = {}
             THEN update_job_progress(Tail(todo), snap, js, ts, next)
             ELSE LET job == SchedAggregate(snap[j], ts, j)
                      new == IF job.status = "completed" THEN FollowUps(job, j, next)
                             ELSE <<>>
                      added == [x \in DOMAIN js \cup DOMAIN new |->
                                   IF x \in DOMAIN new THEN new[x] ELSE js[x]]
                  IN  update_job_progress(Tail(todo), snap, update_job(added, j, job), ts,
                                          next + Cardinality(DOMAIN new))

\* One turn of Scheduler.start's loop when no emit suspends: the timeout
\* sweep, then the aggregation, then the sleep.
SchedulerPass ==
    /\ loop = Free
    /\ LET swept == check_worker_timeouts(WorkerList(workers), workers, workers, tasks)
           agg == update_job_progress(ActiveJobs(jobs), jobs, jobs, swept[2], nextJob)
       IN  /\ agg[2] <= MaxJobs + 1
           /\ workers' = swept[1]
           /\ tasks' = swept[2]
           /\ jobs' = agg[1]
           /\ nextJob' = agg[2]
    /\ UNCHANGED <<loop, req, sched, agent, ws_manager>>

\* ------------------------------------------------------ the coordinator

\* What the clients send: the priority of an update, the exit code and
\* message of a failure report, the percentage of a progress report, and
\* how far the clock moves at once.
Priorities == {50, 90}
ExitCodes == {-1}
ErrorMessages == {None, Some("error")}
Progresses == {50}
Leaps == {worker_timeout + 1}

\* The worker host of Spec.
Hosts == {1}

\* The task an agent reports about is the one it holds; it may report late
\* and more than once.
Held(w) == agent[w]

\* Spec: no streaming client is connected, so no emit suspends.  One
\* client submits one single-task job, one worker host runs an agent, and
\* every endpoint is called in any order.

Next ==
    \/ nextJob = 1 /\ submit_job(50, "default", "ffmpeg", 0, {}, 1)
    \/ \E j \in JobIds : suspend_job(j)
    \/ \E j \in JobIds : resume_job(j)
    \/ \E j \in JobIds : cancel_job(j)
    \/ \E j \in JobIds : retry_job(j)
    \/ \E j \in JobIds : delete_job(j)
    \/ \E j \in JobIds, p \in Priorities : update_job_priority(j, p)
    \/ \E w \in Hosts : \E t \in Held(w) : task_started(t)
    \/ \E w \in Hosts, p \in Progresses : \E t \in Held(w) : task_progress(t, p)
    \/ \E w \in Hosts : \E t \in Held(w) : task_completed(t, 0)
    \/ \E w \in Hosts, c \in ExitCodes, m \in ErrorMessages :
           \E t \in Held(w) : task_failed(t, c, m)
    \/ \E t \in TaskIds : retry_task(t)
    \/ \E t \in TaskIds : cancel_task(t)
    \/ \E t \in TaskIds : suspend_task(t)
    \/ \E w \in Hosts : register_worker(w, {"default"}, {})
    \/ \E w \in Hosts : worker_heartbeat(w)
    \/ \E w \in Hosts : disable_worker(w)
    \/ \E w \in Hosts : enable_worker(w)
    \/ \E w \in Hosts : delete_worker(w)
    \/ \E w \in Hosts : AgentDrop(w)
    \/ \E w \in Hosts : request_task(w)
    \/ \E w \in Hosts : ReqUpdateTask(w)
    \/ \E w \in Hosts : ReqUpdateWorker(w)
    \/ \E w \in Hosts : ReqUpdateJob(w)
    \/ \E w \in Hosts : ReqReturn(w)
    \/ \E d \in Leaps : Tick(d)
    \/ SchedulerPass

Spec == Init /\ [][Next]_vars

\* ------------------------------------------------------------- dispatch

\* Scheduler._check_dependencies: every dependency is a stored, completed job.
DependenciesMet(js, j) ==
    \A d \in js[j].dependent_on : d \in DOMAIN js /\ js[d].status = "completed"

\* The capability test of Scheduler._find_task_for_worker.
Capable(worker, job) == worker.capabilities = {} \/ job.plugin \in worker.capabilities

\* What the clients of SpecDispatch send: two priorities, two pools, two
\* plugins, dependencies on nothing, on the first job, on a job never stored.
DispatchPriorities == {10, 90}
Shapes ==
    {[pool |-> "default", plugin |-> "aftereffects", dependent_on |-> {}],
     [pool |-> "gpu", plugin |-> "aftereffects", dependent_on |-> {}],
     [pool |-> "default", plugin |-> "ffmpeg", dependent_on |-> {1}],
     [pool |-> "default", plugin |-> "aftereffects", dependent_on |-> {NoSuchJob}]}
WorkerPools == {{"default"}, {"default", "gpu"}}
WorkerCapabilities == {{}, {"ffmpeg"}}

\* Submissions, one worker host that registers, is disabled, pulls and
\* completes what it pulled, and jobs suspended and resumed.
NextDispatch ==
    \/ \E p \in DispatchPriorities, s \in Shapes, n \in 1..MaxTasks :
           submit_job(p, s.pool, s.plugin, 0, s.dependent_on, n)
    \/ \E j \in JobIds : suspend_job(j)
    \/ \E j \in JobIds : resume_job(j)
    \/ \E pools \in WorkerPools, caps \in WorkerCapabilities : register_worker(1, pools, caps)
    \/ disable_worker(1)
    \/ \E t \in Held(1) : task_completed(t, 0)
    \/ AgentDrop(1)
    \/ request_task(1)
    \/ ReqUpdateTask(1)
    \/ ReqUpdateWorker(1)
    \/ ReqUpdateJob(1)
    \/ ReqReturn(1)

SpecDispatch == Init /\ [][NextDispatch]_vars

\* ----------------------------------------------------------------- race

\* A store with one job whose last task is the only pending one, every
\* worker registered and idle, and one request_task call of each in flight.
RacePriorities == {10, 50, 90}
InitRace ==
    \E p \in RacePriorities, s \in {"queued", "active"}, n \in 1..MaxTasks,
       pl \in [WorkerIds -> WorkerPools] :
        /\ jobs = (1 :> [NewJob(p, "default", "aftereffects", 0, {}, 1) EXCEPT
                            !.status = s, !.task_total = n, !.task_completed = n - 1,
                            !.progress = Percent((n - 1) * 100, n)])
        /\ tasks = [t \in {<<1, i>> : i \in 0..(n - 1)} |->
                       IF t[2] < n - 1
                       THEN [NewTask(1, t[2]) EXCEPT !.status = "completed",
                                                     !.assigned_worker = Some(1),
                                                     !.exit_code = Some(0)]
                       ELSE NewTask(1, t[2])]
        /\ workers = [w \in WorkerIds |-> NewWorker(pl[w], {})]
        /\ nextJob = 2
        /\ loop = Free
        /\ req = [w \in WorkerIds |-> ReqQueued]
        /\ sched = SchedSleep
        /\ agent = [w \in WorkerIds |-> None]
        /\ ws_manager = NoConnections

NextRace ==
    \/ \E w \in WorkerIds : ReqStart(w)
    \/ \E w \in WorkerIds : ReqUpdateTask(w)
    \/ \E w \in WorkerIds : ReqUpdateWorker(w)
    \/ \E w \in WorkerIds : ReqUpdateJob(w)
    \/ \E w \in WorkerIds : ReqReturn(w)

SpecRace == InitRace /\ [][NextRace]_vars

\* ---------------------------------------------------------------- counts

\* One job of up to MaxTasks tasks, every worker host an agent that reports
\* late and repeatedly, and the operations that write the counts of a job,
\* the status of a task, or remove rows.
NextCounts ==
    \/ \E n \in 1..MaxTasks :
           nextJob = 1 /\ submit_job(50, "default", "aftereffects", 1, {}, n)
    \/ \E j \in JobIds : cancel_job(j)
    \/ \E j \in JobIds : retry_job(j)
    \/ \E j \in JobIds : delete_job(j)
    \/ \E w \in WorkerIds : \E t \in Held(w) : task_started(t)
    \/ \E w \in WorkerIds : \E t \in Held(w) : task_completed(t, 0)
    \/ \E w \in WorkerIds : \E t \in Held(w) : task_failed(t, -1, Some("error"))
    \/ \E t \in TaskIds : retry_task(t)
    \/ \E t \in TaskIds : cancel_task(t)
    \/ \E w \in WorkerIds : register_worker(w, {"default"}, {})
    \/ \E w \in WorkerIds : AgentDrop(w)
    \/ \E w \in WorkerIds : request_task(w)
    \/ \E w \in WorkerIds : ReqUpdateTask(w)
    \/ \E w \in WorkerIds : ReqUpdateWorker(w)
    \/ \E w \in WorkerIds : ReqUpdateJob(w)
    \/ \E w \in WorkerIds : ReqReturn(w)
    \/ SchedulerPass

SpecCounts == Init /\ [][NextCounts]_vars

\* ---------------------------------------------------------------- claims

\* No handler is in the middle of its statements.
Quiescent == loop = Free /\ \A w \in WorkerIds : req[w].pc \in {"idle", "queued"}

\* C1: whenever no handler is mid-way, every task that is assigned or
\* running names a stored worker that is busy with exactly that task.
C1_ActiveTaskHasBusyWorker ==
    Quiescent =>
        \A t \in DOMAIN tasks :
            tasks[t].status \in {"assigned", "running"} =>
                /\ tasks[t].assigned_worker # None
                /\ The(tasks[t].assigned_worker) \in DOMAIN workers
                /\ workers[The(tasks[t].assigned_worker)].current_task = Some(t)
                /\ workers[The(tasks[t].assigned_worker)].status = "busy"

\* C2: whenever no handler is mid-way, every busy worker has a current
\* task that is stored and names that worker as its assigned worker.
C2_BusyWorkerHasTask ==
    Quiescent =>
        \A w \in DOMAIN workers :
            workers[w].status = "busy" =>
                /\ workers[w].current_task # None
                /\ The(workers[w].current_task) \in DOMAIN tasks
                /\ tasks[The(workers[w].current_task)].assigned_worker = Some(w)

\* The one task the racing workers compete for.
RaceTask == CHOOSE t \in DOMAIN tasks : tasks[t].job_id = 1 /\ \A u \in DOMAIN tasks : u[2] <= t[2]

\* C3: when concurrent pulls of distinct idle workers meet one eligible
\* task, no two workers are handed the same task, and once every call has
\* returned exactly one worker holds the task and the others hold none.
C3_OneWinner ==
    /\ \A w, v \in WorkerIds : w # v /\ agent[w] # None => agent[w] # agent[v]
    /\ (\A w \in WorkerIds : req[w].pc = "idle") =>
           \E w \in WorkerIds : /\ agent[w] = Some(RaceTask)
                                /\ \A v \in WorkerIds \ {w} : agent[v] = None

\* C3 witness: every call has returned and the second worker won the task.
C3_Witness ==
    /\ \A w \in WorkerIds : req[w].pc = "idle"
    /\ agent[2] = Some(RaceTask)
    /\ agent[1] = None
    /\ tasks[RaceTask].assigned_worker = Some(2)

\* request_task between its first and its last write.
MidAssign(w) == req[w].pc \in {"update_task", "update_worker", "update_job"}

\* C4: from the moment request_task has picked a task until its three
\* writes are done, every step of the system is that handler's next
\* statement: nothing else runs on a partly assigned state.
C4_AssignAtomic ==
    [][\A w \in WorkerIds :
          MidAssign(w) =>
              /\ req[w].pc = "update_task" => req'[w].pc = "update_worker"
              /\ req[w].pc = "update_worker" => req'[w].pc = "update_job"
              /\ req[w].pc = "update_job" =>
                     /\ req'[w].pc = "return"
                     /\ req'[w].resp = req[w].task
                     /\ LET t == The(req[w].task)
                        IN  /\ t \in DOMAIN tasks'
                            /\ tasks'[t].status = "assigned"
                            /\ tasks'[t].assigned_worker = Some(w)
                            /\ w \in DOMAIN workers'
                            /\ workers'[w].status = "busy"
                            /\ workers'[w].current_task = Some(t)
                            /\ tasks'[t].job_id \in DOMAIN jobs'
                            /\ jobs'[tasks'[t].job_id].status = "active"]_vars

\* C4 witness: a pull has written the task row and not yet the worker row.
C4_Witness ==
    \E w \in WorkerIds :
        /\ req[w].pc = "update_worker"
        /\ tasks[The(req[w].task)].status = "assigned"
        /\ workers[w].status = "idle"

\* The rule of the dispatcher for worker row worker and task t.
Eligible(worker, t) ==
    /\ tasks[t].status = "pending"
    /\ tasks[t].job_id \in DOMAIN jobs
    /\ jobs[tasks[t].job_id].status \in {"queued", "active"}
    /\ jobs[tasks[t].job_id].pool \in worker.pools
    /\ Capable(worker, jobs[tasks[t].job_id])
    /\ DependenciesMet(jobs, tasks[t].job_id)

\* request_task has picked a task and written nothing yet.
Selecting(w) == req[w].pc = "update_task"

\* C5: when a pull picks a task while eligible tasks exist, it picks the
\* eligible task first in job priority (high first), then submission time,
\* then index.
C5_BestEligible ==
    \A w \in WorkerIds :
        Selecting(w) =>
            LET worker == The(req[w].worker)
                t == The(req[w].task)
                E == {u \in DOMAIN tasks : Eligible(worker, u)}
            IN  E # {} => /\ t \in E
                          /\ \A u \in E \ {t} : Before(jobs, tasks, t, u)

\* C6: a pull picks a task only for an idle worker, only a pending task of
\* a queued or active job whose pool is among the worker's pools; any other
\* pull answers with no task and leaves the store as it was.
C6_PullPreconditions ==
    [][\A w \in WorkerIds :
          (req[w].pc \in {"idle", "queued"} /\ req'[w].pc \notin {"idle", "queued"}) =>
              /\ req'[w].pc \in {"update_task", "return"}
              /\ req'[w].pc = "update_task" =>
                     LET t == The(req'[w].task)
                     IN  /\ workers[w].status = "idle"
                         /\ tasks[t].status = "pending"
                         /\ jobs[tasks[t].job_id].status \in {"queued", "active"}
                         /\ jobs[tasks[t].job_id].pool \in workers[w].pools
              /\ req'[w].pc = "return" =>
                     /\ req'[w].resp = None
                     /\ <<jobs, tasks, workers>>' = <<jobs, tasks, workers>>]_vars

\* C6 witness: a pull was refused while the only pending tasks belong to a
\* pool the worker does not serve.
C6_Witness ==
    \E w \in DOMAIN workers :
        /\ req[w].pc = "return"
        /\ req[w].resp = None
        /\ workers[w].status = "idle"
        /\ \E t \in DOMAIN tasks :
               /\ tasks[t].status = "pending"
               /\ jobs[tasks[t].job_id].status \in {"queued", "active"}
               /\ jobs[tasks[t].job_id].pool \notin workers[w].pools

\* C7: a pull never picks a task for a worker whose capabilities are not
\* empty and lack the plugin of the task's job.
C7_CapabilityRespected ==
    \A w \in WorkerIds :
        Selecting(w) => Capable(The(req[w].worker), jobs[The(req[w].row).job_id])

\* C8: a pull picks a task only when every job its job depends on is
\* stored and completed.
C8_DependenciesRespected ==
    \A w \in WorkerIds :
        Selecting(w) => DependenciesMet(jobs, The(req[w].row).job_id)

C10_CompletedJobTasksCompleted ==
    Quiescent =>
        \A j \in DOMAIN jobs :
            jobs[j].status = "completed" =>
                \A t \in get_tasks_by_job(tasks, j) : tasks[t].status = "completed"

\* C11: from one stored value to the next, the progress of a job that is
\* queued or active before and after the step never decreases.
C11_ProgressMonotonic ==
    [][\A j \in DOMAIN jobs \cap DOMAIN jobs' :
          (jobs[j].status \in {"queued", "active"} /\ jobs'[j].status \in {"queued", "active"})
              => jobs'[j].progress >= jobs[j].progress]_vars

\* -------------------------------------------------------------- timeouts

\* The clock moves in steps that reach the timeout exactly and pass it by
\* one second.
TimeSteps == {worker_timeout \div 2, worker_timeout \div 2 + 1}

\* One job of up to MaxTasks tasks; worker hosts that register, pull,
\* report start and completion, send heartbeats or stay silent; the clock;
\* the scheduler.
NextTimeout ==
    \/ \E n \in 1..MaxTasks : nextJob = 1 /\ submit_job(50, "default", "aftereffects", 0, {}, n)
    \/ \E w \in WorkerIds : register_worker(w, {"default"}, {})
    \/ \E w \in WorkerIds : worker_heartbeat(w)
    \/ \E w \in WorkerIds : disable_worker(w)
    \/ \E w \in WorkerIds : \E t \in Held(w) : task_started(t)
    \/ \E w \in WorkerIds : request_task(w)
    \/ \E w \in WorkerIds : ReqUpdateTask(w)
    \/ \E w \in WorkerIds : ReqUpdateWorker(w)
    \/ \E w \in WorkerIds : ReqUpdateJob(w)
    \/ \E w \in WorkerIds : ReqReturn(w)
    \/ \E d \in TimeSteps : Tick(d)
    \/ SchedulerPass

SpecTimeout == Init /\ [][NextTimeout]_vars

\* Worker w is busy with the running task t, which names it.
RunningOn(w, t) ==
    /\ w \in DOMAIN workers
    /\ t \in DOMAIN tasks
    /\ workers[w].status = "busy"
    /\ workers[w].current_task = Some(t)
    /\ tasks[t].status = "running"
    /\ tasks[t].assigned_worker = Some(w)

\* C12: a scheduler tick that finds a worker busy with a running task and
\* its last heartbeat older than the timeout leaves the worker offline with
\* no current task and the task pending with no assigned worker, and every
\* other idle worker that serves the job's pool would be handed that task
\* by its next pull unless a pending task ordered before it is waiting.
C12_TimeoutRequeues ==
    [][SchedulerPass =>
          \A w \in WorkerIds, t \in TaskIds :
              (RunningOn(w, t) /\ TimedOut(workers[w])) =>
                  /\ workers'[w].status = "offline"
                  /\ workers'[w].current_task = None
                  /\ tasks'[t].status = "pending"
                  /\ tasks'[t].assigned_worker = None
                  /\ \A v \in DOMAIN workers' \ {w} :
                         (/\ workers'[v].status = "idle"
                          /\ jobs'[t[1]].pool \in workers'[v].pools) =>
                             LET c == Candidates(jobs', tasks', workers'[v].pools)
                             IN  /\ t \in c
                                 /\ \/ get_next_task_for_worker(jobs', tasks',
                                                                workers'[v].pools) = Some(t)
                                    \/ \E u \in c : Before(jobs', tasks', u, t)]_vars

\* C12 witness: a worker went silent holding a started task, was swept
\* offline, and another worker has been handed the same task.
C12_Witness ==
    \E w, v \in DOMAIN workers : \E t \in DOMAIN tasks :
        /\ w # v
        /\ workers[w].status = "offline"
        /\ workers[w].current_task = None
        /\ agent[w] = Some(t)
        /\ agent[v] = Some(t)
        /\ tasks[t].assigned_worker = Some(v)
        /\ workers[v].current_task = Some(t)

\* C13: a scheduler tick turns a worker that is not offline into an offline
\* one exactly when its last heartbeat is older than worker_timeout: at
\* exactly worker_timeout seconds it stays, one second later it goes.
C13_StrictBoundary ==
    [][SchedulerPass =>
          \A w \in DOMAIN workers :
              workers[w].status # "offline" =>
                  /\ w \in DOMAIN workers'
                  /\ (workers'[w].status = "offline") <=> (workers[w].hb_age > worker_timeout)]_vars

\* C13 witness: one worker has been swept offline while another, whose last
\* heartbeat is exactly worker_timeout seconds old, is still not offline.
C13_Witness ==
    \E w, v \in DOMAIN workers :
        /\ workers[w].status = "offline"
        /\ workers[w].hb_age > worker_timeout
        /\ workers[v].status # "offline"
        /\ workers[v].hb_age = worker_timeout

C15_TerminalAbsorbing ==
    [][\A j \in DOMAIN jobs \cap DOMAIN jobs' :
          /\ jobs[j].status \in {"completed", "cancelled"} => jobs'[j].status = jobs[j].status
          /\ jobs[j].status = "failed" =>
                 \/ jobs'[j].status = "failed"
                 \/ jobs'[j].status = "queued" /\ retry_job(j)]_vars

\* C16: a lifecycle command takes effect only from the statuses that have
\* the transition: cancel from a status that is not completed, cancelled or
\* failed, suspend from queued or active, resume from suspended, retry from
\* failed; from any other status it changes nothing.
C16_LifecycleGuards ==
    [][\A j \in DOMAIN jobs :
          /\ cancel_job(j) => jobs[j].status \notin {"completed", "cancelled", "failed"}
          /\ suspend_job(j) => jobs[j].status \in {"queued", "active"}
          /\ resume_job(j) => jobs[j].status = "suspended"
          /\ retry_job(j) => jobs[j].status = "failed"]_vars

\* C17: a job leaves the store only from status completed, cancelled or
\* failed, and when it does no task with its job_id is left; a delete of
\* such a job removes it; tasks leave the store only with their job, so
\* every stored task belongs to a stored job.
C17_DeleteTerminalCascade ==
    [][/\ \A j \in DOMAIN jobs :
              /\ j \notin DOMAIN jobs' =>
                     /\ jobs[j].status \in {"completed", "cancelled", "failed"}
                     /\ get_tasks_by_job(tasks', j) = {}
              /\ delete_job(j) => j \notin DOMAIN jobs'
       /\ \A t \in DOMAIN tasks' : tasks'[t].job_id \in DOMAIN jobs'
       /\ \A t \in DOMAIN tasks \ DOMAIN tasks' : tasks[t].job_id \notin DOMAIN jobs']_vars

\* C17 witness: the job that was submitted is gone together with its tasks
\* while a worker still holds one of them.
C17_Witness ==
    /\ nextJob > 1
    /\ 1 \notin DOMAIN jobs
    /\ get_tasks_by_job(tasks, 1) = {}
    /\ \E w \in WorkerIds : \E t \in agent[w] : t[1] = 1

\* C18: retry_job on a failed job keeps the set of stored task ids, turns
\* every failed task of the job into a pending one without assigned worker,
\* leaves its completed tasks completed, stores status queued on the job
\* and leaves Job.progress equal to 100 x completed tasks / task_total.
C18_RetryJob ==
    [][\A j \in DOMAIN jobs :
          retry_job(j) =>
              /\ DOMAIN tasks' = DOMAIN tasks
              /\ \A t \in get_tasks_by_job(tasks, j) :
                     /\ tasks[t].status = "failed" =>
                            tasks'[t].status = "pending" /\ tasks'[t].assigned_worker = None
                     /\ tasks[t].status = "completed" => tasks'[t].status = "completed"
              /\ jobs'[j].status = "queued"
              /\ jobs'[j].progress =
                     Percent(100 * CountStatus(tasks', j, "completed"), jobs'[j].task_total)]_vars

\* C19: right after a worker has registered, registering it again with the
\* same data leaves the same worker table as the heartbeat its agent sends
\* instead, and leaves the table as the first registration left it, with
\* status idle and a fresh last_heartbeat.
C19_RegisterTwice ==
    [][\A w \in WorkerIds : \A pools \in WorkerPools : \A capabilities \in WorkerCapabilities :
          register_worker(w, pools, capabilities) =>
              LET twice == upsert_worker(workers', w, NewWorker(pools, capabilities))
              IN  /\ twice = workers'
                  /\ twice[w].status = "idle"
                  /\ twice[w].hb_age = 0
                  /\ \A tel \in Telemetry :
                         twice = update_worker_heartbeat(workers', w,
                                                         HeartbeatOf(agent'[w], tel))]_vars

\* ----------------------------------------------------- failed submissions

\* The plugins of the registry.
Registry == {"aftereffects", "ffmpeg"}

\* An except branch that left the rows of the job in place.
NoRollback(js, ts, j) == <<js, ts>>

\* The except branch of submit_job: db.delete_job(job.id).
Rollback(js, ts, j) == <<delete_job_row(js, j), delete_job_tasks(ts, j)>>

\* submit_job naming a plugin that is not registered, or plugin data that
\* plugin.validate refuses: HTTP 400 before anything is stored.
submit_job_invalid(plugin, valid) ==
    /\ loop = Free
    /\ plugin \notin Registry \/ ~valid
    /\ UNCHANGED vars

\* submit_job whose try block raises: add_job has stored the job, stored
\* of the n tasks have been added when create_tasks (stored = 0) or
\* add_task raises, and the except branch runs before HTTP 500 is returned.
submit_job_error(priority, pool, plugin, formats, dependent_on, n, stored) ==
    /\ loop = Free
    /\ nextJob <= MaxJobs
    /\ plugin \in Registry
    /\ stored < n
    /\ LET j == nextJob
           added == Insert(jobs, j, NewJob(priority, pool, plugin, formats, dependent_on, j))
           some == [t \in DOMAIN tasks \cup {<<j, i>> : i \in 0..(stored - 1)} |->
                       IF t \in DOMAIN tasks THEN tasks[t] ELSE NewTask(t[1], t[2])]
           left == Rollback(added, some, j)
       IN  /\ jobs' = left[1]
           /\ tasks' = left[2]
           /\ nextJob' = j + 1
    /\ UNCHANGED <<workers, loop, req, sched, agent, ws_manager>>

\* The plugin names of the submissions: two registered, one not.
SubmittedPlugins == Registry \cup {"blender"}

\* Submissions that are stored, refused or fail half-way, and one worker
\* that registers, pulls and completes tasks.
NextSubmit ==
    \/ \E n \in 1..MaxTasks : \E plugin \in Registry :
           submit_job(50, "default", plugin, 0, {}, n)
    \/ \E plugin \in SubmittedPlugins : \E valid \in BOOLEAN : submit_job_invalid(plugin, valid)
    \/ \E n \in 1..MaxTasks : \E stored \in 0..(n - 1) : \E plugin \in Registry :
           submit_job_error(50, "default", plugin, 0, {}, n, stored)
    \/ \E w \in Hosts : register_worker(w, {"default"}, {})
    \/ \E w \in Hosts : \E t \in Held(w) : task_completed(t, 0)
    \/ \E w \in Hosts : AgentDrop(w)
    \/ \E w \in Hosts : request_task(w)
    \/ \E w \in Hosts : ReqUpdateTask(w)
    \/ \E w \in Hosts : ReqUpdateWorker(w)
    \/ \E w \in Hosts : ReqUpdateJob(w)
    \/ \E w \in Hosts : ReqReturn(w)

SpecSubmit == Init /\ [][NextSubmit]_vars

\* C20: a submission that names an unknown plugin or fails validation
\* leaves the jobs and tasks as they were, and a submission whose task
\* creation or task storing raises leaves no job and no task under the id
\* it drew and every other job and task as it was.
C20_FailedSubmissionLeavesNothing ==
    [][/\ \A plugin \in SubmittedPlugins : \A valid \in BOOLEAN :
              submit_job_invalid(plugin, valid) => jobs' = jobs /\ tasks' = tasks
       /\ \A n \in 1..MaxTasks : \A stored \in 0..(n - 1) : \A plugin \in Registry :
              submit_job_error(50, "default", plugin, 0, {}, n, stored) =>
                  /\ nextJob \notin DOMAIN jobs'
                  /\ get_tasks_by_job(tasks', nextJob) = {}
                  /\ jobs' = jobs
                  /\ tasks' = tasks]_vars

\* C20 witness: an id was drawn by a submission of which no job and no task
\* is stored, while a later submission is stored with its tasks.
C20_Witness ==
    \E j \in 1..(nextJob - 1) : \E k \in DOMAIN jobs :
        /\ j \notin DOMAIN jobs
        /\ get_tasks_by_job(tasks, j) = {}
        /\ k > j
        /\ get_tasks_by_job(tasks, k) # {}

\* C21: a submission that succeeds with n tasks from create_tasks stores the
\* job in status queued with task_total n, and the tasks stored for the job
\* are exactly those n, indexed from 0, each pending with no assigned
\* worker; the tasks of other jobs are as they were.
C21_SubmissionStored ==
    [][\A n \in 1..MaxTasks : \A plugin \in Registry :
          submit_job(50, "default", plugin, 0, {}, n) =>
              /\ nextJob \in DOMAIN jobs'
              /\ jobs'[nextJob].status = "queued"
              /\ jobs'[nextJob].task_total = n
              /\ get_tasks_by_job(tasks', nextJob) = {<<nextJob, i>> : i \in 0..(n - 1)}
              /\ \A t \in get_tasks_by_job(tasks', nextJob) :
                     /\ tasks'[t].status = "pending"
                     /\ tasks'[t].assigned_worker = None
                     /\ tasks'[t].index = t[2]
              /\ \A t \in DOMAIN tasks : t \in DOMAIN tasks' /\ tasks'[t] = tasks[t]]_vars

\* C21 witness: the job submitted last is queued with MaxTasks tasks, all of
\* them pending and unassigned.
C21_Witness ==
    /\ nextJob > 1
    /\ (nextJob - 1) \in DOMAIN jobs
    /\ jobs[nextJob - 1].status = "queued"
    /\ jobs[nextJob - 1].task_total = MaxTasks
    /\ Cardinality(get_tasks_by_job(tasks, nextJob - 1)) = MaxTasks
    /\ \A t \in get_tasks_by_job(tasks, nextJob - 1) :
           tasks[t].status = "pending" /\ tasks[t].assigned_worker = None

\* C22: every step that takes a stored job to status completed inserts,
\* once each, the follow-up jobs that the job's plugin describes for it.
C22_FollowUpsOnCompletion ==
    [][\A j \in DOMAIN jobs \cap DOMAIN jobs' :
          (jobs[j].status # "completed" /\ jobs'[j].status = "completed") =>
              Cardinality({k \in DOMAIN jobs' \ DOMAIN jobs : jobs'[k].dependent_on = {j}})
                  = Cardinality(DOMAIN FollowUps(jobs'[j], j, nextJob))]_vars

\* ------------------------------------------- the scheduler, step by step

\* The scheduler coroutine runs when it holds the loop; suspended at an
\* await inside its turn it resumes when the loop is free.
SchedRuns == loop = SchedCo \/ (loop = Free /\ sched.pc # "sleep")

\* await event_bus.emit_async(...): with an asynchronous subscriber that
\* waits (the broadcaster sending to a streaming client) the coroutine is
\* suspended and the loop is free, otherwise it runs on.
AfterEmit == {Free, SchedCo}

\* Scheduler.start: the sleep is over; _check_worker_timeouts lists the
\* workers (and takes now).
SchedWake ==
    /\ loop = Free
    /\ sched.pc = "sleep"
    /\ sched' = [pc |-> "sweep", todo |-> WorkerList(workers), snap |-> workers, job |-> None]
    /\ loop' = SchedCo
    /\ UNCHANGED <<jobs, tasks, workers, nextJob, req, agent, ws_manager>>

\* _check_worker_timeouts: one worker of the list; a timed-out one has its
\* running task re-queued, is marked offline and worker.disconnected is
\* emitted.
SchedSweepStep ==
    /\ SchedRuns
    /\ sched.pc = "sweep"
    /\ sched.todo # <<>>
    /\ LET w == Head(sched.todo)
           worker == sched.snap[w]
       IN  IF worker.status # "offline" /\ TimedOut(worker)
           THEN /\ tasks' = Requeue(tasks, worker)
                /\ workers' = mark_worker_offline(workers, w)
                /\ loop' \in AfterEmit
           ELSE /\ UNCHANGED <<tasks, workers>>
                /\ loop' = SchedCo
    /\ sched' = [sched EXCEPT !.todo = Tail(@)]
    /\ UNCHANGED <<jobs, nextJob, req, agent, ws_manager>>

\* _update_job_progress: the list of the active jobs is read.
SchedSweepEnd ==
    /\ SchedRuns
    /\ sched.pc = "sweep"
    /\ sched.todo = <<>>
    /\ sched' = [pc |-> "aggregate", todo |-> ActiveJobs(jobs), snap |-> jobs, job |-> None]
    /\ loop' = SchedCo
    /\ UNCHANGED <<jobs, tasks, workers, nextJob, req, agent, ws_manager>>

\* _update_job_progress: one job of the list.  Its tasks are read now, the
\* job object is the one listed.  A job that completes has its follow-up
\* jobs added and job.completed emitted, one that fails has job.failed
\* emitted, both before the object is written back; any other job is
\* written back at once.
SchedAggStep ==
    /\ SchedRuns
    /\ sched.pc = "aggregate"
    /\ sched.todo # <<>>
    /\ LET j == Head(sched.todo)
       IN  IF get_tasks_by_job(tasks, j) = {}
           THEN /\ sched' = [sched EXCEPT !.todo = Tail(@)]
                /\ loop' = SchedCo
                /\ UNCHANGED <<jobs, nextJob>>
           ELSE LET job == SchedAggregate(sched.snap[j], tasks, j)
                    new == IF job.status = "completed" THEN FollowUps(job, j, nextJob)
                           ELSE <<>>
                IN  IF job.status \in {"completed", "failed"}
                    THEN /\ nextJob + Cardinality(DOMAIN new) <= MaxJobs + 2
                         /\ jobs' = [x \in DOMAIN jobs \cup DOMAIN new |->
                                        IF x \in DOMAIN new THEN new[x] ELSE jobs[x]]
                         /\ nextJob' = nextJob + Cardinality(DOMAIN new)
                         /\ sched' = [sched EXCEPT !.pc = "writeback", !.job = Some(job)]
                         /\ loop' \in AfterEmit
                    ELSE /\ jobs' = update_job(jobs, j, job)
                         /\ sched' = [sched EXCEPT !.todo = Tail(@)]
                         /\ loop' = SchedCo
                         /\ UNCHANGED nextJob
    /\ UNCHANGED <<tasks, workers, req, agent, ws_manager>>

\* _update_job_progress: self.db.update_job(job) after the emit.
SchedWriteBack ==
    /\ SchedRuns
    /\ sched.pc = "writeback"
    /\ jobs' = update_job(jobs, Head(sched.todo), The(sched.job))
    /\ sched' = [sched EXCEPT !.pc = "aggregate", !.todo = Tail(@), !.job = None]
    /\ loop' = SchedCo
    /\ UNCHANGED <<tasks, workers, nextJob, req, agent, ws_manager>>

\* Scheduler.start: await asyncio.sleep(self.poll_interval)
SchedAggEnd ==
    /\ SchedRuns
    /\ sched.pc = "aggregate"
    /\ sched.todo = <<>>
    /\ sched' = SchedSleep
    /\ loop' = Free
    /\ UNCHANGED <<jobs, tasks, workers, nextJob, req, agent, ws_manager>>

\* The pools of the submissions.
Pools == {"default", "gpu"}

\* After Effects jobs of one task and one encoding format that differ in
\* priority and pool, a worker host that serves both pools, pulls and
\* completes, tasks cancelled by the user, and the scheduler with emits
\* that may suspend it.
NextFollowUp ==
    \/ \E priority \in DispatchPriorities : \E pool \in Pools :
           submit_job(priority, pool, "aftereffects", 1, {}, 1)
    \/ \E w \in Hosts : register_worker(w, Pools, {})
    \/ \E w \in Hosts : \E t \in Held(w) : task_completed(t, 0)
    \/ \E t \in TaskIds : cancel_task(t)
    \/ \E w \in Hosts : AgentDrop(w)
    \/ \E w \in Hosts : request_task(w)
    \/ \E w \in Hosts : ReqUpdateTask(w)
    \/ \E w \in Hosts : ReqUpdateWorker(w)
    \/ \E w \in Hosts : ReqUpdateJob(w)
    \/ \E w \in Hosts : ReqReturn(w)
    \/ SchedWake
    \/ SchedSweepStep
    \/ SchedSweepEnd
    \/ SchedAggStep
    \/ SchedWriteBack
    \/ SchedAggEnd

SpecFollowUp == Init /\ [][NextFollowUp]_vars

\* C23: every follow-up job that a step inserts (a new job in status
\* pending) names in dependent_on exactly the job the scheduler is
\* completing and has that job's priority and pool.
C23_FollowUpFields ==
    [][\A k \in DOMAIN jobs' \ DOMAIN jobs :
          jobs'[k].status = "pending" =>
              /\ sched.pc = "aggregate"
              /\ sched.todo # <<>>
              /\ LET j == Head(sched.todo)
                 IN  /\ j \in DOMAIN jobs
                     /\ sched'.pc = "writeback"
                     /\ The(sched'.job).status = "completed"
                     /\ jobs'[k].dependent_on = {j}
                     /\ jobs'[k].priority = jobs[j].priority
                     /\ jobs'[k].pool = jobs[j].pool]_vars

\* C23 witness: a stored job depends on a completed job and has its
\* priority and pool.
C23_Witness ==
    \E j, k \in DOMAIN jobs :
        /\ jobs[j].status = "completed"
        /\ jobs[k].dependent_on = {j}
        /\ jobs[k].priority = jobs[j].priority
        /\ jobs[k].pool = jobs[j].pool

\* C24: once a render job whose plugin describes an encoding follow-up is
\* completed, a follow-up job that depends on it is stored (the job a
\* pulling encoder worker is to receive a task of).
C24_FollowUpExists ==
    \A j \in DOMAIN jobs :
        (jobs[j].status = "completed" /\ DOMAIN FollowUps(jobs[j], j, nextJob) # {}) =>
            \E k \in DOMAIN jobs : jobs[k].dependent_on = {j}

\* --------------------------------------------------- suspend and resume

\* One job of up to MaxTasks tasks that the user suspends and resumes while
\* workers pull its tasks and report start, completion and failure.
NextSuspend ==
    \/ \E n \in 1..MaxTasks : nextJob = 1 /\ submit_job(50, "default", "ffmpeg", 0, {}, n)
    \/ \E j \in JobIds : suspend_job(j)
    \/ \E j \in JobIds : resume_job(j)
    \/ \E w \in WorkerIds : register_worker(w, {"default"}, {})
    \/ \E w \in WorkerIds : \E t \in Held(w) : task_started(t)
    \/ \E w \in WorkerIds : \E t \in Held(w) : task_completed(t, 0)
    \/ \E w \in WorkerIds : \E t \in Held(w) : task_failed(t, -1, Some("error"))
    \/ \E w \in WorkerIds : AgentDrop(w)
    \/ \E w \in WorkerIds : request_task(w)
    \/ \E w \in WorkerIds : ReqUpdateTask(w)
    \/ \E w \in WorkerIds : ReqUpdateWorker(w)
    \/ \E w \in WorkerIds : ReqUpdateJob(w)
    \/ \E w \in WorkerIds : ReqReturn(w)

SpecSuspend == Init /\ [][NextSuspend]_vars

\* C25: no step of a pull-task selects or assigns a task of a suspended
\* job, and a completion or failure report for a task of a suspended job
\* that is assigned or running is recorded on the task.
C25_SuspendHaltsDispatch ==
    [][/\ \A w \in WorkerIds : \A t \in DOMAIN tasks :
              (\/ req'[w].pc # req[w].pc /\ req'[w].task = Some(t)
               \/ /\ t \in DOMAIN tasks'
                  /\ tasks'[t].assigned_worker # tasks[t].assigned_worker
                  /\ tasks'[t].assigned_worker = Some(w)) =>
                  /\ t[1] \in DOMAIN jobs
                  /\ jobs[t[1]].status # "suspended"
       /\ \A t \in DOMAIN tasks :
              (/\ t[1] \in DOMAIN jobs
               /\ jobs[t[1]].status = "suspended"
               /\ tasks[t].status \in {"assigned", "running"}) =>
                  /\ task_completed(t, 0) =>
                         tasks'[t].status = "completed" /\ tasks'[t].exit_code = Some(0)
                  /\ task_failed(t, -1, Some("error")) =>
                         /\ tasks'[t].status = "failed"
                         /\ tasks'[t].exit_code = Some(-1)
                         /\ tasks'[t].error_message = Some("error")]_vars

\* C25 witness: in a suspended job one task has been completed by its
\* worker, another is still pending, and an idle worker of the pool has
\* pulled and holds nothing.
C25_Witness ==
    \E j \in DOMAIN jobs : \E t, u \in get_tasks_by_job(tasks, j) : \E w \in DOMAIN workers :
        /\ jobs[j].status = "suspended"
        /\ tasks[t].status = "completed"
        /\ tasks[u].status = "pending"
        /\ workers[w].status = "idle"
        /\ jobs[j].pool \in workers[w].pools
        /\ agent[w] = None
        /\ req[w].pc = "idle"

\* C26: resume_job on a suspended job stores active exactly when none of
\* its tasks is pending and queued otherwise, and a pull that has assigned
\* a task returns with the job of that task active.
C26_ResumeTarget ==
    [][/\ \A j \in DOMAIN jobs :
              resume_job(j) =>
                  LET pending == \E t \in get_tasks_by_job(tasks, j) : tasks[t].status = "pending"
                  IN  /\ jobs'[j].status = "active" <=> ~pending
                      /\ jobs'[j].status = "queued" <=> pending
       /\ \A w \in WorkerIds : \A t \in TaskIds :
              (req'[w].pc = "return" /\ req'[w].resp = Some(t) /\ t[1] \in DOMAIN jobs') =>
                  jobs'[t[1]].status = "active"]_vars

\* C26 witness: a job is queued although one of its tasks is completed and
\* another is pending, which only a resume of the suspended job leaves
\* behind, and an idle worker of its pool can pull.
C26_Witness ==
    \E j \in DOMAIN jobs : \E t, u \in get_tasks_by_job(tasks, j) : \E w \in DOMAIN workers :
        /\ jobs[j].status = "queued"
        /\ tasks[t].status = "completed"
        /\ tasks[u].status = "pending"
        /\ workers[w].status = "idle"
        /\ agent[w] = None

\* C27: a heartbeat leaves the stored status and current_task of the
\* worker as they are, whatever it reports.
C27_HeartbeatKeepsStoreView ==
    [][\A w \in DOMAIN workers :
          worker_heartbeat(w) =>
              /\ workers'[w].status = workers[w].status
              /\ workers'[w].current_task = workers[w].current_task]_vars

\* C28: every stored job in status failed has an error message, and every
\* stored task in status failed has an exit code and an error message.
C28_FailuresExplained ==
    /\ \A j \in DOMAIN jobs : jobs[j].status = "failed" => jobs[j].error_message # None
    /\ \A t \in DOMAIN tasks :
           tasks[t].status = "failed" =>
               tasks[t].exit_code # None /\ tasks[t].error_message # None

\* ------------------------------------------------------------- progress

\* The clock while every worker keeps heartbeating: no stored heartbeat
\* grows older than worker_timeout.
TickLive(d) ==
    /\ \A w \in DOMAIN workers : workers[w].hb_age + d <= worker_timeout
    /\ Tick(d)

\* WorkerAgent.start and _execute_task: the agent registers once, pulls
\* while it holds no task, reports start for the task it was handed, then
\* completion with exit code 0, then forgets the task.
AgentStep(w) ==
    \/ w \notin DOMAIN workers /\ register_worker(w, {"default"}, {})
    \/ request_task(w)
    \/ ReqUpdateTask(w)
    \/ ReqUpdateWorker(w)
    \/ ReqUpdateJob(w)
    \/ ReqReturn(w)
    \/ \E t \in Held(w) : tasks[t].status = "assigned" /\ task_started(t)
    \/ \E t \in Held(w) : tasks[t].status = "running" /\ task_completed(t, 0)
    \/ \E t \in Held(w) : tasks[t].status = "completed" /\ AgentDrop(w)

\* One job of up to MaxTasks tasks without dependencies, agents that follow
\* their protocol and heartbeat in time, the clock and the scheduler.
NextLive ==
    \/ \E n \in 1..MaxTasks : nextJob = 1 /\ submit_job(50, "default", "ffmpeg", 0, {}, n)
    \/ \E w \in WorkerIds : AgentStep(w)
    \/ \E w \in WorkerIds : worker_heartbeat(w)
    \/ \E d \in TimeSteps : TickLive(d)
    \/ SchedulerPass

\* The event loop serves every request that keeps being made, and every
\* agent keeps taking the next step of its loop.
SpecLive == Init /\ [][NextLive]_vars /\ \A w \in WorkerIds : SF_vars(AgentStep(w))

\* The job has run to the end: completed, every task counted, progress 100.
JobDone(j) ==
    /\ j \in DOMAIN jobs
    /\ jobs[j].status = "completed"
    /\ jobs[j].task_total = Cardinality(get_tasks_by_job(tasks, j))
    /\ jobs[j].task_completed = jobs[j].task_total
    /\ jobs[j].progress = 100

NextTick ==
    \/ \E n \in 1..MaxTasks :
           nextJob = 1 /\ submit_job(50, "default", "ffmpeg", 1, {}, n)
    \/ \E w \in WorkerIds : register_worker(w, {"default"}, {})
    \/ \E w \in WorkerIds : \E t \in Held(w) : task_started(t)
    \/ \E w \in WorkerIds : \E t \in Held(w) : task_completed(t, 0)
    \/ \E t \in TaskIds : cancel_task(t)
    \/ \E t \in TaskIds : suspend_task(t)
    \/ \E w \in WorkerIds : AgentDrop(w)
    \/ \E w \in WorkerIds : request_task(w)
    \/ \E w \in WorkerIds : ReqUpdateTask(w)
    \/ \E w \in WorkerIds : ReqUpdateWorker(w)
    \/ \E w \in WorkerIds : ReqUpdateJob(w)
    \/ \E w \in WorkerIds : ReqReturn(w)
    \/ SchedulerPass

SpecTick == Init /\ [][NextTick]_vars

\* The job is active and each of its tasks is completed or failed.
ActiveAllTerminal(js, ts, j) ==
    /\ j \in DOMAIN js
    /\ js[j].status = "active"
    /\ get_tasks_by_job(ts, j) # {}
    /\ \A t \in get_tasks_by_job(ts, j) : ts[t].status \in {"completed", "failed"}

\* C30: a scheduler tick that finds an active job all of whose tasks are
\* completed or failed leaves it completed, with its finish time, when no
\* task failed, and failed, with its finish time and an error message, when
\* one or more tasks failed; the job is not active after the tick.
C30_TickSettlesTerminalJobs ==
    [][\A j \in JobIds :
           (ActiveAllTerminal(jobs, tasks, j) /\ SchedulerPass) =>
               /\ jobs'[j].status # "active"
               /\ jobs'[j].finished
               /\ CountStatus(tasks, j, "failed") = 0 => jobs'[j].status = "completed"
               /\ CountStatus(tasks, j, "failed") >= 1 =>
                      /\ jobs'[j].status = "failed"
                      /\ jobs'[j].error_message # None]_vars

\* ---------------------------------------------------------------- events

Clients == 1..MaxClients

Range(seq) == {seq[i] : i \in DOMAIN seq}

\* list.remove(x) where x occurs at most once
Remove(seq, x) == SelectSeq(seq, LAMBDA y : y # x)

\* The handlers in the order emit_async calls them: emit's type-specific
\* and global handlers, then the asynchronous type-specific and global ones;
\* broadcast_event is subscribed with subscribe_all_async.
HandlerOrder ==
    <<"handler", "global_handler", "async_handler", "async_global_handler",
      "broadcast_event">>

\* EventBus.emit / emit_async: every call sits in its own try / except
\* Exception, so a handler of `raising` is called like the others and the
\* loop goes on.
RECURSIVE emit(_, _)
emit(handlers, raising) ==
    IF handlers = <<>> THEN {}
    ELSE {Head(handlers)} \cup emit(Tail(handlers), raising)

\* ConnectionManager.connect: accept, then append.
ws_connect(c) ==
    /\ c \notin Range(ws_manager.active_connections)
    /\ c \notin ws_manager.closed
    /\ ws_manager' = [ws_manager EXCEPT !.active_connections = Append(@, c)]
    /\ UNCHANGED <<jobs, tasks, workers, nextJob, loop, req, sched, agent>>

\* The peer of a connection goes away: every later send on it raises and its
\* websocket_endpoint will see WebSocketDisconnect.
PeerGone(c) ==
    /\ c \in Range(ws_manager.active_connections)
    /\ c \notin ws_manager.closed
    /\ ws_manager' = [ws_manager EXCEPT !.closed = @ \cup {c}]
    /\ UNCHANGED <<jobs, tasks, workers, nextJob, loop, req, sched, agent>>

\* websocket_endpoint: except WebSocketDisconnect: ws_manager.disconnect
ws_disconnect(c) ==
    /\ c \in ws_manager.closed
    /\ c \in Range(ws_manager.active_connections)
    /\ ws_manager' = [ws_manager EXCEPT !.active_connections = Remove(@, c)]
    /\ UNCHANGED <<jobs, tasks, workers, nextJob, loop, req, sched, agent>>

\* emit_async(event) up to the first send of broadcast_event.
emit_async(raising) ==
    /\ ws_manager.bc = None
    /\ ws_manager' = [ws_manager EXCEPT !.invoked = emit(HandlerOrder, raising),
                        !.received = {},
                        !.bc = Some([i |-> 1, disconnected |-> <<>>,
                                     start |-> ws_manager.active_connections])]
    /\ UNCHANGED <<jobs, tasks, workers, nextJob, loop, req, sched, agent>>

\* One turn of `for connection in self.active_connections`: the iterator
\* reads the list as it is now at its index; await send_json.
BroadcastSend ==
    /\ ws_manager.bc # None
    /\ LET bc == The(ws_manager.bc)
           c == ws_manager.active_connections[bc.i]
       IN  /\ bc.i <= Len(ws_manager.active_connections)
           /\ IF c \in ws_manager.closed
              THEN ws_manager' = [ws_manager EXCEPT !.bc = Some([bc EXCEPT !.i = @ + 1,
                                                 !.disconnected = Append(@, c)])]
              ELSE ws_manager' = [ws_manager EXCEPT !.bc = Some([bc EXCEPT !.i = @ + 1]),
                                    !.received = @ \cup {c}]
    /\ UNCHANGED <<jobs, tasks, workers, nextJob, loop, req, sched, agent>>

\* The iterator is exhausted: for conn in disconnected: self.disconnect(conn)
BroadcastEnd ==
    /\ ws_manager.bc # None
    /\ The(ws_manager.bc).i > Len(ws_manager.active_connections)
    /\ ws_manager' = [ws_manager EXCEPT !.active_connections =
                            SelectSeq(@, LAMBDA y : y \notin Range(The(ws_manager.bc).disconnected)),
                        !.bc = None]
    /\ UNCHANGED <<jobs, tasks, workers, nextJob, loop, req, sched, agent>>

NextEvents ==
    \/ \E c \in Clients : ws_connect(c)
    \/ \E c \in Clients : PeerGone(c)
    \/ \E c \in Clients : ws_disconnect(c)
    \/ \E raising \in SUBSET (Range(HandlerOrder) \ {"broadcast_event"}) : emit_async(raising)
    \/ BroadcastSend
    \/ BroadcastEnd

SpecEvents == Init /\ [][NextEvents]_vars

\* C31: when an event has been delivered, every subscribed handler was
\* called whichever of them raised, every client whose send failed is out of
\* the connection set, and every other client that was connected when the
\* delivery began and still is has received the event.
C31_BestEffortDelivery ==
    [][(ws_manager.bc # None /\ ws_manager'.bc = None) =>
           LET bc == The(ws_manager.bc)
           IN  /\ ws_manager.invoked = Range(HandlerOrder)
               /\ \A c \in Range(bc.disconnected) : c \notin Range(ws_manager'.active_connections)
               /\ bc.disconnected # <<>> =>
                      \A c \in Range(bc.start) :
                          (c \in Range(ws_manager'.active_connections) /\ c \notin ws_manager.closed)
                              => c \in ws_manager.received]_vars

\* ------------------------------------------------------ the task machine

\* C32: the status of a task changes only along the task state machine:
\* pending to assigned, assigned to running, running to completed, failed or
\* pending, failed to pending; a report that finds the task in another status
\* leaves it as it is.
C32_TaskMachine ==
    [][\A t \in DOMAIN tasks \cap DOMAIN tasks' :
           tasks'[t].status # tasks[t].status =>
               <<tasks[t].status, tasks'[t].status>> \in
                   {<<"pending", "assigned">>, <<"assigned", "running">>,
                    <<"running", "completed">>, <<"running", "failed">>,
                    <<"running", "pending">>, <<"failed", "pending">>}]_vars

\* -------------------------------------------------------------- reports

\* C33: after a complete or fail report for a task assigned to worker w, w
\* is idle with no current task, the job's task_completed and task_failed
\* are the numbers of its completed and failed tasks, and if all its tasks
\* are then completed or failed the job is completed when none failed and
\* failed otherwise.
C33_ReportEffects ==
    [][\A t \in DOMAIN tasks : \A w \in DOMAIN workers :
           (/\ tasks[t].assigned_worker = Some(w)
            /\ tasks[t].job_id \in DOMAIN jobs
            /\ \/ task_completed(t, 0)
               \/ task_failed(t, -1, Some("error"))) =>
               LET j == tasks[t].job_id
                   completed == CountStatus(tasks', j, "completed")
                   failed == CountStatus(tasks', j, "failed")
               IN  /\ workers'[w].status = "idle"
                   /\ workers'[w].current_task = None
                   /\ jobs'[j].task_completed = completed
                   /\ jobs'[j].task_failed = failed
                   /\ completed + failed = Cardinality(get_tasks_by_job(tasks', j)) =>
                          jobs'[j].status = IF failed = 0 THEN "completed" ELSE "failed"]_vars

\* A worker finished a task of a job that has another task, and one that
\* finished the last task of a job.
C33_Witness ==
    \E t \in DOMAIN tasks : \E u \in DOMAIN tasks :
        /\ t # u
        /\ tasks[t].job_id = tasks[u].job_id
        /\ tasks[t].status = "completed"
        /\ tasks[u].status = "failed"
        /\ tasks[u].exit_code # None
        /\ tasks[t].assigned_worker # None
        /\ tasks[u].assigned_worker # None
        /\ jobs[tasks[t].job_id].status = "failed"
        /\ jobs[tasks[t].job_id].task_completed = 1
        /\ jobs[tasks[t].job_id].task_failed = 1
        /\ \A w \in DOMAIN workers : workers[w].status = "idle"

\* ------------------------------------------------------ one holder a task

\* C34: no two workers have the same task as their current_task, also after
\* a timed-out worker's task was re-queued and assigned to another worker
\* and the first worker's heartbeats still report it.
C34_OneHolder ==
    \A w \in DOMAIN workers : \A v \in DOMAIN workers :
        (w # v /\ workers[w].current_task # None) =>
            workers[w].current_task # workers[v].current_task

\* ------------------------------------------------------ disabled workers

\* C35: a disabled worker is assigned no task, and it stays disabled until
\* an admin enables it, it registers again or the timeout sweep marks it
\* offline: neither its heartbeats nor the release of a task it held set its
\* status to idle or busy.
C35_DisabledStays ==
    [][\A w \in DOMAIN workers :
           workers[w].status = "disabled" =>
               /\ \A t \in DOMAIN tasks' :
                      tasks'[t].assigned_worker = Some(w) =>
                          t \in DOMAIN tasks /\ tasks[t].assigned_worker = Some(w)
               /\ \/ w \notin DOMAIN workers'
                  \/ workers'[w].status \in {"disabled", "offline"}
                  \/ enable_worker(w)
                  \/ register_worker(w, {"default"}, {})]_vars

\* ------------------------------------------------- the sweep and a pulled task

\* C36: when the timeout sweep marks a worker offline, the task the worker
\* holds, running or assigned and not yet started, goes back to pending with
\* no assigned worker, so that no task stays assigned to an offline worker.
C36_SweepRequeuesInFlight ==
    [][\A w \in DOMAIN workers : \A t \in DOMAIN tasks :
           (/\ workers[w].status # "offline"
            /\ w \in DOMAIN workers'
            /\ workers'[w].status = "offline"
            /\ workers[w].current_task = Some(t)
            /\ tasks[t].assigned_worker = Some(w)
            /\ tasks[t].status \in {"assigned", "running"}) =>
               /\ tasks'[t].status = "pending"
               /\ tasks'[t].assigned_worker = None]_vars

\* ------------------------------------------------ events and the store

\* C37: while job.completed or job.failed is being delivered the store
\* holds the job in that status, and the follow-up jobs of a job exist only
\* once the job is stored as completed.
C37_CauseBeforeEffect ==
    sched.pc = "writeback" =>
        LET j == Head(sched.todo)
        IN  /\ j \in DOMAIN jobs
            /\ jobs[j].status = The(sched.job).status

\* --------------------------------------------- the pass and the handlers

\* The scheduler loop step by step with the handlers that change a job
\* while it is suspended at an emit.
NextStale ==
    \/ NextFollowUp
    \/ \E j \in JobIds : cancel_job(j)
    \/ \E j \in JobIds : suspend_job(j)

SpecStale == Init /\ [][NextStale]_vars

\* C38: when the aggregation pass writes a job back, a status that a request
\* handler stored for that job after the pass read its list of active jobs
\* is still the stored status after the write.
C38_NoLostUpdate ==
    [][(/\ sched.pc \in {"aggregate", "writeback"}
        /\ sched.todo # <<>>
        /\ sched'.todo = Tail(sched.todo)) =>
           LET j == Head(sched.todo)
           IN  (j \in DOMAIN jobs /\ jobs[j].status # sched.snap[j].status) =>
                   jobs'[j].status = jobs[j].status]_vars

\* ------------------------------------------ the sweep and the heartbeats

\* The timeout sweep step by step among workers that pull, start, heartbeat
\* or fall silent.
NextSweep ==
    \/ nextJob = 1 /\ submit_job(50, "default", "ffmpeg", 0, {}, 1)
    \/ \E w \in WorkerIds : register_worker(w, {"default"}, {})
    \/ \E w \in WorkerIds : worker_heartbeat(w)
    \/ \E w \in WorkerIds : \E t \in Held(w) : task_started(t)
    \/ \E w \in WorkerIds : request_task(w)
    \/ \E w \in WorkerIds : ReqUpdateTask(w)
    \/ \E w \in WorkerIds : ReqUpdateWorker(w)
    \/ \E w \in WorkerIds : ReqUpdateJob(w)
    \/ \E w \in WorkerIds : ReqReturn(w)
    \/ \E d \in TimeSteps : Tick(d)
    \/ SchedWake
    \/ SchedSweepStep
    \/ SchedSweepEnd
    \/ SchedAggStep
    \/ SchedAggEnd

SpecSweep == Init /\ [][NextSweep]_vars

\* C39: a worker that a step marks offline has, in the store at that moment,
\* a heartbeat older than worker_timeout, and so has a worker whose running
\* task a step of the sweep returns to pending.
C39_SweepReadsFreshHeartbeat ==
    [][\A w \in DOMAIN workers :
           /\ (/\ workers[w].status # "offline"
               /\ w \in DOMAIN workers'
               /\ workers'[w].status = "offline") =>
                  workers[w].hb_age > worker_timeout
           /\ \A t \in DOMAIN tasks :
                  (/\ tasks[t].assigned_worker = Some(w)
                   /\ tasks[t].status = "running"
                   /\ tasks'[t].status = "pending") =>
                      workers[w].hb_age > worker_timeout]_vars

\* ------------------------------------------------------------- chunking

\* A chunk that ran to start + chunk_size - 1 whatever the last frame.
Unclamped(start, chunk_size, frame_end) == start + chunk_size - 1

\* end = min(start + chunk_size - 1, frame_end)
ChunkEnd(start, chunk_size, frame_end) == Min(start + chunk_size - 1, frame_end)

\* for start in range(frame_start, frame_end + 1, chunk_size): the frame
\* ranges in the order the tasks are appended.
RECURSIVE Chunks(_, _, _)
Chunks(start, frame_end, chunk_size) ==
    IF start > frame_end THEN <<>>
    ELSE <<<<start, ChunkEnd(start, chunk_size, frame_end)>>>>
             \o Chunks(start + chunk_size, frame_end, chunk_size)

\* AfterEffectsPlugin._create_custom_tasks: a chunk_size of 0 or less
\* becomes min(50, total_frames).
create_custom_tasks(frame_start, frame_end, chunk_size) ==
    LET total_frames == frame_end - frame_start + 1
    IN  Chunks(frame_start, frame_end,
               IF chunk_size <= 0 THEN Min(50, total_frames) ELSE chunk_size)

\* AfterEffectsPlugin.create_tasks of the top-level plugins package: a
\* chunk_size of 0 or less gives one task for the whole range.
create_tasks(frame_start, frame_end, chunk_size) ==
    IF chunk_size <= 0 THEN <<<<frame_start, frame_end>>>>
    ELSE Chunks(frame_start, frame_end, chunk_size)

\* The two After Effects plugins of the repository.
AfterEffectsPlugins == {"src.plugins.aftereffects", "plugins.aftereffects"}

\* Frame ranges and chunk sizes of custom-mode submissions that validate
\* accepts (frame_start <= frame_end), with the two of the examples.
ChunkInputs ==
    {<<fs, fe, cs>> : fs \in 0..1, fe \in 0..MaxFrame, cs \in 0..MaxChunk}
        \cup {<<1, 100, 25>>, <<1, 10, 0>>}

\* submit_job of a custom-mode After Effects job: the job row with its
\* plugin_data, one task row per task of create_tasks in list order,
\* task_total = len(tasks), status queued.
submit_custom(plugin, frame_start, frame_end, chunk_size) ==
    /\ loop = Free
    /\ nextJob <= MaxJobs
    /\ frame_start <= frame_end
    /\ LET j == nextJob
           created == IF plugin = "src.plugins.aftereffects"
                      THEN create_custom_tasks(frame_start, frame_end, chunk_size)
                      ELSE create_tasks(frame_start, frame_end, chunk_size)
           job == [NewJob(50, "default", "aftereffects", 0, {}, j) EXCEPT
                       !.task_total = SubmitTaskTotal(Len(created)),
                       !.status = "queued"]
       IN  /\ jobs' = Insert(jobs, j,
                   job @@ [plugin_data |-> [frame_start |-> frame_start,
                                            frame_end |-> frame_end,
                                            chunk_size |-> chunk_size]])
           /\ tasks' = [t \in DOMAIN tasks \cup {<<j, i - 1>> : i \in DOMAIN created} |->
                           IF t \in DOMAIN tasks THEN tasks[t]
                           ELSE NewTask(t[1], t[2])
                                    @@ [frame_start |-> created[t[2] + 1][1],
                                        frame_end |-> created[t[2] + 1][2]]]
           /\ nextJob' = j + 1
    /\ UNCHANGED <<workers, loop, req, sched, agent, ws_manager>>

NextChunks ==
    \E plugin \in AfterEffectsPlugins : \E input \in ChunkInputs :
        submit_custom(plugin, input[1], input[2], input[3])

SpecChunks == Init /\ [][NextChunks]_vars

=============================================================================
